---- MODULE Spec2Model ----
(***************************************************************************)
(* Verification model of cordo's effect-derivation engine                  *)
(* (src/utils/effects.ts, buildEffect) and of its playback synchronizer    *)
(* (src/utils/App.ts, class App).                                          *)
(*                                                                         *)
(* Times are integers in milliseconds unless stated otherwise.  A JS       *)
(* value that may be null/undefined is a sequence of length 0 or 1 (so a   *)
(* session without a mouseEvents list and one with an empty list are both  *)
(* << >>: line 39 of effects.ts is the only place that meets them, and it  *)
(* treats them alike).                                                     *)
(***************************************************************************)
EXTENDS Integers, Sequences, FiniteSets, TLC

(***************************************************************************)
(* Bounds of the model and the inputs that are enumerated.                 *)
(***************************************************************************)
\* Longest pointer trace of a session that is enumerated.
MaxEvents == 4

\* Absolute timestamps a pointer sample may carry.
TimeGrid == {0, 400, 1200, 2500, 3800}

\* (startTime, endTime, totalDuration) of the sessions that are enumerated:
\* a span longer than the media (clamped), a span equal to the media's
\* reach, a late session start (negative offsets), a span shorter than the
\* media.
SessionConfigs ==
    { <<0, 3800, 3000>>, <<0, 3800, 4000>>, <<400, 2500, 4000>>, <<0, 2500, 3000>> }

\* The pointer is at one place at any one time: the sample position is a
\* function of the sample time.
PointerAt(t) ==
    CASE t = 0    -> [x |-> 100, y |-> 100]
      [] t = 400  -> [x |-> 110, y |-> 110]
      [] t = 1200 -> [x |-> 120, y |-> 120]
      [] t = 2500 -> [x |-> 200, y |-> 150]
      [] OTHER    -> [x |-> 210, y |-> 160]

\* The default field of view handed to buildEffect (degrees).
DefaultFOV == 60

EventTypes == {"mouseDown", "mouseUp", "mouseMove"}

\* A sample whose time is the number t.  timeIs tells what the JS value of
\* time is: "finite" (the integer in time), "NaN", "Infinity", or "none"
\* (not of type number); time is 0 in the last three.
MouseEvent(ty, t) ==
    [type |-> ty, time |-> t, timeIs |-> "finite", x |-> PointerAt(t).x, y |-> PointerAt(t).y]

\* A sample whose time is not a finite number.
OddEvent(ty, what) ==
    [type |-> ty, time |-> 0, timeIs |-> what, x |-> 100, y |-> 100]

EventPool == { MouseEvent(ty, t) : ty \in EventTypes, t \in TimeGrid }

\* The end-to-end trace Down@0(100,100), Move@400(110,110), Up@1200(120,120).
ScenarioTrace ==
    << MouseEvent("mouseDown", 0), MouseEvent("mouseMove", 400), MouseEvent("mouseUp", 1200) >>

IsChronological(s) == \A i \in 1..(Len(s) - 1) : s[i].time <= s[i + 1].time

\* Longest trace that is enumerated in every order of arrival.
MaxShuffled == 3

\* Traces of up to MaxEvents samples in chronological order, as the recorder
\* appends them, and every trace of up to MaxShuffled samples in any order.
Traces ==
    UNION { { s \in [1..n -> EventPool] : n <= MaxShuffled \/ IsChronological(s) } :
            n \in 0..MaxEvents }

\* Longest trace of the sessions with odd samples or degenerate durations.
MaxEdge == 3

\* The samples of those sessions: two gestures' worth of well-formed
\* samples, a sample with a negative timestamp, and samples whose timestamp
\* is NaN, Infinity and not a number.
EdgePool ==
    { MouseEvent(ty, t) : ty \in {"mouseDown", "mouseUp"}, t \in {0, 1200} }
    \cup { MouseEvent("mouseMove", 400), MouseEvent("mouseDown", 0 - 400),
           OddEvent("mouseDown", "NaN"), OddEvent("mouseUp", "Infinity"),
           OddEvent("mouseMove", "none") }

\* (startTime, endTime, totalDuration): a well-formed session, endTime =
\* startTime, endTime < startTime, totalDuration = 0, totalDuration < 0.
EdgeConfigs ==
    { <<0, 2500, 3000>>, <<1200, 1200, 3000>>, <<1200, 0, 3000>>,
      <<0, 2500, 0>>, <<0, 2500, 0 - 1000>> }

EdgeTraces == UNION { [1..n -> EdgePool] : n \in 0..MaxEdge }

(***************************************************************************)
(* config of buildEffect (effects.ts 43-57)                                *)
(***************************************************************************)
ZoomMinDuration == 1000
ZoomMinFOVDelta == 20
ZoomTransitionDuration == 500
TrackMinDuration == 1000
TrackMinPoints == 2
JoinThreshold == 2000

VARIABLES
    session,        \* the SessionData handed to buildEffect
    totalDuration,  \* buildEffect's totalDuration argument
    bpc,            \* position of buildEffect's control
    endTime,        \* buildEffect's local endTime (after the clamp)
    validEvents,    \* the filtered, sorted events
    evIdx,          \* number of validEvents the walk has consumed
    currentZoom,    \* ZoomData | null
    currentTrack,   \* TrackData | null
    effects,        \* Effect[]
    fxIdx,          \* number of effects the compile loop has consumed
    currentTime,    \* the compile loop's time cursor
    timeline,       \* the children added to the anime timeline, in order
    round,          \* which call of buildEffect on this session this is
    firstResult,    \* what the first call returned (null until it has)
    video,          \* the HTMLVideoElement (the media clock)
    anim,           \* App.timeline: the anime timeline instance | undefined
    orphaned,       \* the timelines built earlier that App.timeline replaced
    app,            \* App's own fields
    rafPending,     \* ids of the requestAnimationFrame callbacks pending
    renderer,       \* the WebGLRenderer: disposed or not, and its size
    listeners,      \* the listeners attached to the video element and window
    torn,           \* number of cleanup() calls that have returned
    lastCall,       \* the handler that ran last, and what it did
    hook,           \* useScreenRecording's state and refs (tabs/record.tsx)
    awaiting,       \* startRecording calls suspended at an await
    recorders,      \* the MediaRecorders created, with their stream's track
    storage,        \* the localStorage.setItem calls made, in order
    editorTabs,     \* the chrome.tabs.create calls made, in order
    now,            \* the value Date.now() returns next
    inj             \* useScriptInjection's ref and its calls in flight

buildVars == << session, totalDuration, bpc, endTime, validEvents, evIdx,
                currentZoom, currentTrack, effects, fxIdx, currentTime, timeline,
                round, firstResult >>

\* What a single call of buildEffect cannot touch: its caller's record of
\* the calls.
callerVars == << round, firstResult >>

appVars == << video, anim, orphaned, app, rafPending, renderer, listeners, torn,
             lastCall >>

\* The record tab's page (tabs/record.tsx).
pageVars == << hook, awaiting, recorders, storage, editorTabs, now, inj >>

vars == << buildVars, appVars, pageVars >>

Null == << >>
Some(v) == << v >>

(***************************************************************************)
(* Helpers of effects.ts                                                   *)
(***************************************************************************)
createZoomData(time, event) ==
    [start |-> time, end |-> time, target |-> [x |-> event.x, y |-> event.y]]

createTrackData(time, event) ==
    [start |-> time, end |-> time, points |-> << [x |-> event.x, y |-> event.y] >>]

MinDurationOf(type) == IF type = "zoom" THEN ZoomMinDuration ELSE TrackMinDuration

\* finalizeEffect without its minimum-duration test.
finalizeEffect_NoMinimum(type, data, effs) ==
    IF type = "track" /\ Len(data.points) < TrackMinPoints
    THEN effs
    ELSE Append(effs, [type |-> type, start |-> data.start, end |-> data.end, data |-> data])

\* finalizeEffect: the effect list after the call.
finalizeEffect(type, data, effs) ==
    LET duration == data.end - data.start IN
    IF duration >= MinDurationOf(type)
    THEN IF type = "track" /\ Len(data.points) < TrackMinPoints
         THEN effs
         ELSE Append(effs, [type |-> type, start |-> data.start, end |-> data.end, data |-> data])
    ELSE effs

RemoveAt(s, i) == [k \in 1..(Len(s) - 1) |-> IF k < i THEN s[k] ELSE s[k + 1]]

\* One merge of effects[i+1] into effects[i] (the body of joinNearbyEffects'
\* if): the effect's end moves, the payload's own end does not.
MergeInto(current, next) ==
    [current EXCEPT
        !.end = next.end,
        !.data = IF current.type = "zoom"
                 THEN [current.data EXCEPT !.target = next.data.target]
                 ELSE [current.data EXCEPT !.points = current.data.points \o next.data.points]]

CanJoin(current, next, threshold) ==
    next.start - current.end < threshold /\ current.type = next.type

\* joinNearbyEffects, from loop index i (1-based) on.
RECURSIVE JoinFrom(_, _, _)
JoinFrom(effs, i, threshold) ==
    IF i > Len(effs) - 1
    THEN effs
    ELSE IF CanJoin(effs[i], effs[i + 1], threshold)
         THEN JoinFrom(RemoveAt([effs EXCEPT ![i] = MergeInto(effs[i], effs[i + 1])], i + 1),
                       i, threshold)
         ELSE JoinFrom(effs, i + 1, threshold)

joinNearbyEffects(effs, threshold) == JoinFrom(effs, 1, threshold)

\* Array.prototype.sort with a numeric comparator is stable.  InsertIdx
\* inserts index j into the sorted index list p after the last index whose
\* key is not greater; SortIdx is the resulting order of 1..n.
RECURSIVE InsertIdx(_, _, _)
InsertIdx(p, j, keys) ==
    IF p = << >> THEN << j >>
    ELSE IF keys[p[Len(p)]] <= keys[j]
         THEN Append(p, j)
         ELSE Append(InsertIdx(SubSeq(p, 1, Len(p) - 1), j, keys), p[Len(p)])

RECURSIVE SortIdx(_, _)
SortIdx(keys, n) ==
    IF n = 0 THEN << >> ELSE InsertIdx(SortIdx(keys, n - 1), n, keys)

\* effects.sort((a, b) => a.start - b.start)
SortByStart(s) ==
    LET p == SortIdx([i \in 1..Len(s) |-> s[i].start], Len(s))
    IN [i \in 1..Len(s) |-> s[p[i]]]

\* .sort((a, b) => a.time - b.time)
SortByTime(s) ==
    LET p == SortIdx([i \in 1..Len(s) |-> s[i].time], Len(s))
    IN [i \in 1..Len(s) |-> s[p[i]]]

\* The filter predicate of validEvents without its upper bound.
IsValidEvent_NoUpperBound(event, startTime, endT) ==
    LET timeInMs == event.time - startTime IN
    event.timeIs = "finite" /\ timeInMs >= 0

\* The filter predicate of validEvents: typeof event.time === "number",
\* !isNaN(event.time), timeInMs >= 0, timeInMs <= endTime - startTime
\* (Infinity passes the first three tests and fails the last).
IsValidEvent(event, startTime, endT) ==
    LET timeInMs == event.time - startTime IN
    /\ event.timeIs # "none"
    /\ event.timeIs # "NaN"
    /\ event.timeIs = "finite" => timeInMs >= 0
    /\ event.timeIs = "finite" /\ timeInMs <= (endT - startTime)

FilterEvents(s, startTime, endT) ==
    SelectSeq(s, LAMBDA e : IsValidEvent(e, startTime, endT))

\* addFillerZoomAnimation: the child added at offset startTime.
FillerChild(startTime, duration) ==
    [kind |-> "filler", offset |-> startTime, duration |-> duration,
     from |-> DefaultFOV, to |-> DefaultFOV, easing |-> "linear"]

\* addZoomAnimation holding for the zoom's whole duration.
addZoomAnimation_LongStay(zoom) ==
    LET minFOV == DefaultFOV - ZoomMinFOVDelta
        total == zoom.end - zoom.start
        zoomOutStartTime == zoom.start + ZoomTransitionDuration \div 2 + total
    IN IF total < ZoomMinDuration
       THEN << >>
       ELSE << [kind |-> "zoomIn", offset |-> zoom.start,
                duration |-> ZoomTransitionDuration \div 2,
                from |-> DefaultFOV, to |-> minFOV, easing |-> "easeInOutQuad"],
               [kind |-> "zoomOut", offset |-> zoomOutStartTime,
                duration |-> ZoomTransitionDuration \div 2,
                from |-> minFOV, to |-> DefaultFOV, easing |-> "easeInOutQuad"] >>

\* addZoomAnimation: the children added for zoom (none below minDuration).
addZoomAnimation(zoom) ==
    LET minFOV == DefaultFOV - ZoomMinFOVDelta
        total == zoom.end - zoom.start
        stayDuration == IF total - ZoomTransitionDuration > 0
                        THEN total - ZoomTransitionDuration ELSE 0
        zoomOutStartTime == zoom.start + ZoomTransitionDuration \div 2 + stayDuration
    IN IF total < ZoomMinDuration
       THEN << >>
       ELSE << [kind |-> "zoomIn", offset |-> zoom.start,
                duration |-> ZoomTransitionDuration \div 2,
                from |-> DefaultFOV, to |-> minFOV, easing |-> "easeInOutQuad"],
               [kind |-> "zoomOut", offset |-> zoomOutStartTime,
                duration |-> ZoomTransitionDuration \div 2,
                from |-> minFOV, to |-> DefaultFOV, easing |-> "easeInOutQuad"] >>

(***************************************************************************)
(* buildEffect                                                             *)
(***************************************************************************)
InitBuild ==
    /\ \E tr \in Traces, cfg \in SessionConfigs :
          /\ session = [mouseEvents |-> tr, startTime |-> cfg[1], endTime |-> cfg[2]]
          /\ totalDuration = cfg[3]
    /\ bpc = "entry"
    /\ endTime = 0
    /\ validEvents = << >>
    /\ evIdx = 0
    /\ currentZoom = Null
    /\ currentTrack = Null
    /\ effects = << >>
    /\ fxIdx = 0
    /\ currentTime = 0
    /\ timeline = << >>
    /\ round = 1
    /\ firstResult = Null

\* Lines 32-41: the clamp of endTime, then the empty-trace error.
ClampedEndTime ==
    IF session.endTime - session.startTime > totalDuration
    THEN session.startTime + totalDuration
    ELSE session.endTime

\* !mouseEvents?.length, with no test of it.
NoMouseEvents_Never(s) == FALSE

\* !mouseEvents?.length (line 39).
NoMouseEvents(s) == Len(s.mouseEvents) = 0

BuildThrow ==
    /\ bpc = "entry"
    /\ NoMouseEvents(session)
    /\ endTime' = ClampedEndTime
    /\ bpc' = "threw"
    /\ UNCHANGED << session, totalDuration, validEvents, evIdx, currentZoom,
                    currentTrack, effects, fxIdx, currentTime, timeline >>
    /\ UNCHANGED << callerVars, appVars, pageVars >>

\* mouseEvents.sort(...).filter(...): the sort orders its receiver, the
\* session's own array, in place.
FilterThenSort_SortsReceiver(arr, startTime, endT) ==
    [receiver |-> SortByTime(arr),
     result |-> SortByTime(FilterEvents(arr, startTime, endT))]

\* mouseEvents.filter(...).sort(...) (lines 65-73): filter returns a new
\* array and sort orders that array in place; receiver is the array the
\* session holds once the expression has been evaluated.
FilterThenSort(arr, startTime, endT) ==
    [receiver |-> arr,
     result |-> SortByTime(FilterEvents(arr, startTime, endT))]

\* Lines 32-73: clamp, timeline creation, filter and sort.  The clamp
\* assigns the local endTime bound by the destructuring of line 32.
BuildPrepare ==
    /\ bpc = "entry"
    /\ ~NoMouseEvents(session)
    /\ endTime' = ClampedEndTime
    /\ LET fs == FilterThenSort(session.mouseEvents, session.startTime, ClampedEndTime)
       IN /\ validEvents' = fs.result
          /\ session' = [session EXCEPT !.mouseEvents = fs.receiver]
    /\ bpc' = "walk"
    /\ UNCHANGED << totalDuration, evIdx, currentZoom, currentTrack,
                    effects, fxIdx, currentTime, timeline >>
    /\ UNCHANGED << callerVars, appVars, pageVars >>

\* The mouseDown case opening a new Zoom whatever is open.
ZoomOnDown_AlwaysNew(cz, effs, event, timeInMs) ==
    [acc |-> Some(createZoomData(timeInMs, event)),
     effects |-> IF cz # Null THEN finalizeEffect("zoom", cz[1], effs) ELSE effs]

\* Lines 80-89: the Zoom accumulator and the effect list after a mouseDown.
ZoomOnDown(cz, effs, event, timeInMs) ==
    IF cz # Null
    THEN IF timeInMs - cz[1].start < ZoomMinDuration
         THEN [acc |-> Some([cz[1] EXCEPT !.end = timeInMs]), effects |-> effs]
         ELSE [acc |-> Some(createZoomData(timeInMs, event)),
               effects |-> finalizeEffect("zoom", cz[1], effs)]
    ELSE [acc |-> Some(createZoomData(timeInMs, event)), effects |-> effs]

\* Lines 91-101: the Track accumulator and the effect list after a mouseDown.
\* The mouseDown case extending an open Track however old it is.
TrackOnDown_NeverSplits(ct, effs, event, timeInMs) ==
    IF ct # Null
    THEN [acc |-> Some([ct[1] EXCEPT
                          !.end = timeInMs,
                          !.points = Append(@, [x |-> event.x, y |-> event.y])]),
          effects |-> effs]
    ELSE [acc |-> Some(createTrackData(timeInMs, event)), effects |-> effs]

\* Lines 91-101: the mouseDown case on the Track accumulator.
TrackOnDown(ct, effs, event, timeInMs) ==
    IF ct # Null
    THEN IF timeInMs - ct[1].start < TrackMinDuration
         THEN [acc |-> Some([ct[1] EXCEPT
                               !.end = timeInMs,
                               !.points = Append(@, [x |-> event.x, y |-> event.y])]),
               effects |-> effs]
         ELSE [acc |-> Some(createTrackData(timeInMs, event)),
               effects |-> finalizeEffect("track", ct[1], effs)]
    ELSE [acc |-> Some(createTrackData(timeInMs, event)), effects |-> effs]

\* The mouseUp case leaving the Zoom open.
ZoomOnUp_StaysOpen(cz, effs, timeInMs) ==
    IF cz # Null
    THEN [acc |-> Some([cz[1] EXCEPT !.end = timeInMs]),
          effects |-> finalizeEffect("zoom", [cz[1] EXCEPT !.end = timeInMs], effs)]
    ELSE [acc |-> cz, effects |-> effs]

\* Lines 105-109.
ZoomOnUp(cz, effs, timeInMs) ==
    IF cz # Null
    THEN [acc |-> Null,
          effects |-> finalizeEffect("zoom", [cz[1] EXCEPT !.end = timeInMs], effs)]
    ELSE [acc |-> cz, effects |-> effs]

\* Lines 111-116.
TrackOnUp(ct, effs, event, timeInMs) ==
    IF ct # Null
    THEN [acc |-> Null,
          effects |-> finalizeEffect("track",
                        [ct[1] EXCEPT !.end = timeInMs,
                                      !.points = Append(@, [x |-> event.x, y |-> event.y])],
                        effs)]
    ELSE [acc |-> ct, effects |-> effs]

\* The mouseMove case appending the point without moving the end.
TrackOnMove_NoEnd(ct, event, timeInMs) ==
    IF ct # Null
    THEN Some([ct[1] EXCEPT !.points = Append(@, [x |-> event.x, y |-> event.y])])
    ELSE ct

\* Lines 120-123.
TrackOnMove(ct, event, timeInMs) ==
    IF ct # Null
    THEN Some([ct[1] EXCEPT !.points = Append(@, [x |-> event.x, y |-> event.y]),
                            !.end = timeInMs])
    ELSE ct

WalkGuard(type) ==
    /\ bpc = "walk"
    /\ evIdx < Len(validEvents)
    /\ validEvents[evIdx + 1].type = type

NextEvent == validEvents[evIdx + 1]
NextTimeInMs == NextEvent.time - session.startTime

\* One iteration of the for loop (75-126) on a mouseDown.
WalkMouseDown ==
    /\ WalkGuard("mouseDown")
    /\ LET z == ZoomOnDown(currentZoom, effects, NextEvent, NextTimeInMs)
           t == TrackOnDown(currentTrack, z.effects, NextEvent, NextTimeInMs)
       IN /\ currentZoom' = z.acc
          /\ currentTrack' = t.acc
          /\ effects' = t.effects
    /\ evIdx' = evIdx + 1
    /\ UNCHANGED << session, totalDuration, bpc, endTime, validEvents, fxIdx,
                    currentTime, timeline >>
    /\ UNCHANGED << callerVars, appVars, pageVars >>

\* One iteration of the for loop on a mouseUp.
WalkMouseUp ==
    /\ WalkGuard("mouseUp")
    /\ LET z == ZoomOnUp(currentZoom, effects, NextTimeInMs)
           t == TrackOnUp(currentTrack, z.effects, NextEvent, NextTimeInMs)
       IN /\ currentZoom' = z.acc
          /\ currentTrack' = t.acc
          /\ effects' = t.effects
    /\ evIdx' = evIdx + 1
    /\ UNCHANGED << session, totalDuration, bpc, endTime, validEvents, fxIdx,
                    currentTime, timeline >>
    /\ UNCHANGED << callerVars, appVars, pageVars >>

\* One iteration of the for loop on a mouseMove.
WalkMouseMove ==
    /\ WalkGuard("mouseMove")
    /\ currentTrack' = TrackOnMove(currentTrack, NextEvent, NextTimeInMs)
    /\ evIdx' = evIdx + 1
    /\ UNCHANGED << session, totalDuration, bpc, endTime, validEvents, currentZoom,
                    effects, fxIdx, currentTime, timeline >>
    /\ UNCHANGED << callerVars, appVars, pageVars >>

\* Lines 128-129: the accumulators still open after the walk are finalized
\* (and stay referenced).
FinalizeOpen ==
    /\ bpc = "walk"
    /\ evIdx = Len(validEvents)
    /\ LET afterZoom == IF currentZoom # Null
                        THEN finalizeEffect("zoom", currentZoom[1], effects)
                        ELSE effects
       IN effects' = IF currentTrack # Null
                     THEN finalizeEffect("track", currentTrack[1], afterZoom)
                     ELSE afterZoom
    /\ bpc' = "join"
    /\ UNCHANGED << session, totalDuration, endTime, validEvents, evIdx, currentZoom,
                    currentTrack, fxIdx, currentTime, timeline >>
    /\ UNCHANGED << callerVars, appVars, pageVars >>

\* Lines 131-136: joinNearbyEffects on the list as classified, then the sort.
JoinAndSort ==
    /\ bpc = "join"
    /\ effects' = SortByStart(joinNearbyEffects(effects, JoinThreshold))
    /\ currentTime' = 0
    /\ bpc' = "compile"
    /\ UNCHANGED << session, totalDuration, endTime, validEvents, evIdx, currentZoom,
                    currentTrack, fxIdx, timeline >>
    /\ UNCHANGED << callerVars, appVars, pageVars >>

\* Lines 143-148: the cursor and the children after the gap check.
\* The gap filler of lines 143-148 drawn up to the effect's end.
GapBefore_ToEnd(effect, cur) ==
    IF effect.start > cur
    THEN [time |-> cur + (effect.start - cur),
          added |-> << FillerChild(cur, effect.end - cur) >>]
    ELSE [time |-> cur, added |-> << >>]

\* Lines 143-148: the filler over the gap before the effect, and the cursor
\* after it.
GapBefore(effect, cur) ==
    IF effect.start > cur
    THEN [time |-> cur + (effect.start - cur),
          added |-> << FillerChild(cur, effect.start - cur) >>]
    ELSE [time |-> cur, added |-> << >>]

\* The compile loop with addTrackAnimation called for a Track (one child
\* per pair of consecutive points, moving the camera).
PlaceEffect_TracksWired(effect, cur) ==
    LET effectDuration == effect.end - effect.start
        moves == [i \in 1..(Len(effect.data.points) - 1) |->
                    [kind |-> "move", offset |-> effect.data.start,
                     duration |-> effectDuration,
                     from |-> effect.data.points[i], to |-> effect.data.points[i + 1],
                     easing |-> "easeInOutQuad"]]
    IN IF effect.type = "zoom"
       THEN IF cur + effectDuration > totalDuration
            THEN [time |-> cur, added |-> << >>]
            ELSE [time |-> cur + effectDuration, added |-> addZoomAnimation(effect.data)]
       ELSE [time |-> cur + effectDuration, added |-> moves]

\* Lines 159-187: the cursor and the children after placing the effect.
PlaceEffect(effect, cur) ==
    LET effectDuration == effect.end - effect.start
        adjustedDuration == totalDuration - cur
    IN IF effect.type = "zoom"
       THEN IF cur + effectDuration > totalDuration
            THEN IF adjustedDuration > 0
                 THEN [time |-> cur + adjustedDuration,
                       added |-> addZoomAnimation(
                           [effect.data EXCEPT !.end = effect.data.start + adjustedDuration])]
                 ELSE [time |-> cur, added |-> << >>]
            ELSE [time |-> cur + effectDuration, added |-> addZoomAnimation(effect.data)]
       ELSE \* track: addTrackAnimation is commented out
            IF cur + effectDuration > totalDuration
            THEN IF adjustedDuration > 0
                 THEN [time |-> cur + adjustedDuration, added |-> << >>]
                 ELSE [time |-> cur, added |-> << >>]
            ELSE [time |-> cur + effectDuration, added |-> << >>]

\* One iteration of the compile loop (139-191).
CompileEffect ==
    /\ bpc = "compile"
    /\ fxIdx < Len(effects)
    /\ LET effect == effects[fxIdx + 1]
           g == GapBefore(effect, currentTime)
           p == PlaceEffect(effect, g.time)
       IN /\ currentTime' = p.time
          /\ timeline' = timeline \o g.added \o p.added
    /\ fxIdx' = fxIdx + 1
    /\ UNCHANGED << session, totalDuration, bpc, endTime, validEvents, evIdx,
                    currentZoom, currentTrack, effects >>
    /\ UNCHANGED << callerVars, appVars, pageVars >>

\* Lines 193-200: the final filler, and the return.
FinalFiller ==
    /\ bpc = "compile"
    /\ fxIdx = Len(effects)
    /\ timeline' = IF currentTime < totalDuration
                   THEN Append(timeline, FillerChild(currentTime, totalDuration - currentTime))
                   ELSE timeline
    /\ bpc' = "done"
    /\ UNCHANGED << session, totalDuration, endTime, validEvents, evIdx, currentZoom,
                    currentTrack, effects, fxIdx, currentTime >>
    /\ UNCHANGED << callerVars, appVars, pageVars >>

\* let currentZoom = null, as a variable the calls share.
NewCallZoom_Shared == currentZoom

\* let currentZoom: ZoomData | null = null (line 62): every call starts with
\* an accumulator of its own.
NewCallZoom == Null

\* The caller keeps what the call returned (or that it threw) and calls
\* buildEffect once more with the same arguments.
Rebuild ==
    /\ bpc \in {"done", "threw"}
    /\ round = 1
    /\ firstResult' = Some([threw |-> bpc = "threw", effects |-> effects,
                            timeline |-> timeline])
    /\ round' = 2
    /\ bpc' = "entry"
    /\ endTime' = 0
    /\ validEvents' = << >>
    /\ evIdx' = 0
    /\ currentZoom' = NewCallZoom
    /\ currentTrack' = Null
    /\ effects' = << >>
    /\ fxIdx' = 0
    /\ currentTime' = 0
    /\ timeline' = << >>
    /\ UNCHANGED << session, totalDuration, appVars, pageVars >>

NextBuild ==
    \/ BuildThrow
    \/ BuildPrepare
    \/ WalkMouseDown
    \/ WalkMouseUp
    \/ WalkMouseMove
    \/ FinalizeOpen
    \/ JoinAndSort
    \/ CompileEffect
    \/ FinalFiller

(***************************************************************************)
(* The playback synchronizer: class App (src/utils/App.ts)                 *)
(*                                                                         *)
(* video.currentTime, App.currentTime and the argument of seek are media   *)
(* times; the model counts them in ticks of MsPerTick milliseconds, so the *)
(* code's `seconds * 1000` is SecToMs.  The anime timeline's position is   *)
(* in milliseconds.                                                        *)
(***************************************************************************)
\* Milliseconds per tick of media time.
MsPerTick == 100

\* Length of the recorded media, in ticks.
MediaTicks == 6

\* Milliseconds the anime engine advances a running timeline per frame.
EngineStep == 50

\* Most requestAnimationFrame callbacks pending at once.
MaxPending == 2

\* onTimeUpdate's drift threshold.
DriftThreshold == 50

SecToMs(t) == t * MsPerTick

Abs(n) == IF n < 0 THEN 0 - n ELSE n

Clamp(n, lo, hi) == IF n < lo THEN lo ELSE IF n > hi THEN hi ELSE n

\* Times seek may be called with: any time of the media, a negative one and
\* one beyond its end.
SeekTimes == (0 - 1)..(MediaTicks + 1)

\* Most times the element reports a finite duration again (a refined
\* estimate of the same length, in ticks) after the first.
MaxRebuilds == 1

\* Most calls of cleanup() on one App.
MaxCleanups == 2

\* Sizes the canvas may take.
CanvasSizes == { 640, 800 }

(*************************** the media element ****************************)
\* HTMLMediaElement.play(): playback resumes; from the end it starts over.
VideoPlay(v) ==
    [v EXCEPT !.paused = FALSE,
              !.currentTime = IF @ >= MediaTicks THEN 0 ELSE @]

\* HTMLMediaElement.pause().
VideoPause(v) == [v EXCEPT !.paused = TRUE]

\* video.currentTime = t: a seek, followed by a timeupdate event.
VideoSetTime(v, t) ==
    [v EXCEPT !.currentTime = Clamp(t, 0, MediaTicks), !.seeking = TRUE]

(*************************** the anime timeline ***************************)
\* anime's instance.reset().
AnimReset(a) == [a EXCEPT !.currentTime = 0, !.paused = TRUE, !.completed = FALSE]

\* anime's instance.play().
AnimPlay(a) ==
    IF ~a.paused THEN a
    ELSE [(IF a.completed THEN AnimReset(a) ELSE a) EXCEPT !.paused = FALSE]

\* anime's instance.pause().
AnimPause(a) == [a EXCEPT !.paused = TRUE]

\* anime's instance.restart(): reset, then play.
AnimRestart(a) == AnimPlay(AnimReset(a))

\* anime's instance.seek(ms) taking the position as given.
AnimSeek_Unclamped(a, ms) ==
    IF ms >= a.duration
    THEN [a EXCEPT !.currentTime = ms, !.paused = TRUE, !.completed = TRUE]
    ELSE [a EXCEPT !.currentTime = ms]

\* anime's instance.seek(ms): the position is kept within the timeline, and
\* a seek to the end completes it.
AnimSeek(a, ms) ==
    IF ms >= a.duration
    THEN [a EXCEPT !.currentTime = a.duration, !.paused = TRUE, !.completed = TRUE]
    ELSE [a EXCEPT !.currentTime = Clamp(ms, 0, a.duration)]

\* The timeline buildEffect returns: anime.timeline({autoplay: false,
\* duration: totalDuration}).
NewTimeline(total) ==
    [currentTime |-> 0, paused |-> TRUE, completed |-> FALSE, duration |-> total]

(******************************* class App ********************************)
\* The state a handler works on: the objects it reaches, and the record of
\* the call (what it emitted, which timeline methods it called, whether it
\* rendered, whether it threw).
Entering ==
    [video |-> video, anim |-> anim, orphaned |-> orphaned, app |-> app,
     raf |-> rafPending, renderer |-> renderer, listeners |-> listeners,
     emitted |-> << >>, animCalls |-> << >>, rendered |-> FALSE, threw |-> FALSE]

\* this.timeline.<method>(...): a TypeError while this.timeline is undefined.
CallPlay(S) ==
    IF S.threw THEN S
    ELSE IF S.anim = Null THEN [S EXCEPT !.threw = TRUE]
    ELSE [S EXCEPT !.anim = Some(AnimPlay(S.anim[1])), !.animCalls = Append(@, "play")]

CallPause(S) ==
    IF S.threw THEN S
    ELSE IF S.anim = Null THEN [S EXCEPT !.threw = TRUE]
    ELSE [S EXCEPT !.anim = Some(AnimPause(S.anim[1])), !.animCalls = Append(@, "pause")]

CallRestart(S) ==
    IF S.threw THEN S
    ELSE IF S.anim = Null THEN [S EXCEPT !.threw = TRUE]
    ELSE [S EXCEPT !.anim = Some(AnimRestart(S.anim[1])), !.animCalls = Append(@, "restart")]

CallSeek(S, ms) ==
    IF S.threw THEN S
    ELSE IF S.anim = Null THEN [S EXCEPT !.threw = TRUE]
    ELSE [S EXCEPT !.anim = Some(AnimSeek(S.anim[1], ms)), !.animCalls = Append(@, "seek")]

\* emit(event, ...args)
emit(S, event, args) ==
    IF S.threw THEN S
    ELSE [S EXCEPT !.emitted = Append(@, [event |-> event, args |-> args])]

\* requestAnimationFrame's return value: an id no pending callback and no
\* stored handle carries.
FrameIds == 1..(MaxPending + 2)
NewFrameId(S) ==
    CHOOSE id \in FrameIds :
        /\ id \notin S.raf
        /\ Some(id) # S.app.animationFrameId
        /\ \A other \in FrameIds :
              (other \notin S.raf /\ Some(other) # S.app.animationFrameId) => id <= other

\* animate (the closure of renderLoop): render and re-schedule while playing.
animate(S) ==
    IF S.threw \/ ~S.app.isPlaying THEN S
    ELSE LET id == NewFrameId(S) IN
         [S EXCEPT !.rendered = TRUE,
                   !.app.animationFrameId = Some(id),
                   !.raf = @ \cup {id}]

renderLoop(S) == animate(S)

play(S) ==
    LET s1 == IF S.threw THEN S
              ELSE [S EXCEPT !.app.isPlaying = TRUE, !.video = VideoPlay(@)]
    IN emit(renderLoop(CallPlay(s1)), "play", << >>)

pause(S) ==
    LET s1 == IF S.threw THEN S
              ELSE [S EXCEPT !.app.isPlaying = FALSE, !.video = VideoPause(@)]
        s2 == CallPause(s1)
        s3 == IF s2.threw \/ s2.app.animationFrameId = Null THEN s2
              ELSE [s2 EXCEPT !.raf = @ \ {s2.app.animationFrameId[1]},
                              !.app.animationFrameId = Null]
    IN emit(s3, "pause", << >>)

seek(S, time) ==
    LET s1 == IF S.threw THEN S
              ELSE [S EXCEPT !.app.currentTime = time, !.video = VideoSetTime(@, time)]
    IN emit(CallSeek(CallRestart(s1), SecToMs(time)), "seek", << time >>)

\* onTimeUpdate re-seeking at a drift of exactly the threshold too.
onTimeUpdate_AtThreshold(S) ==
    LET s1 == [S EXCEPT !.app.currentTime = S.video.currentTime] IN
    IF s1.anim = Null THEN [s1 EXCEPT !.threw = TRUE]
    ELSE LET timelineTime == s1.anim[1].currentTime
             timeDiff == Abs(SecToMs(s1.app.currentTime) - timelineTime)
             s2 == IF timeDiff >= DriftThreshold
                   THEN CallSeek(s1, SecToMs(s1.app.currentTime))
                   ELSE s1
         IN emit(s2, "timeupdate", << s2.app.currentTime >>)

onTimeUpdate(S) ==
    LET s1 == [S EXCEPT !.app.currentTime = S.video.currentTime] IN
    IF s1.anim = Null THEN [s1 EXCEPT !.threw = TRUE]
    ELSE LET timelineTime == s1.anim[1].currentTime
             timeDiff == Abs(SecToMs(s1.app.currentTime) - timelineTime)
             s2 == IF timeDiff > DriftThreshold
                   THEN CallSeek(s1, SecToMs(s1.app.currentTime))
                   ELSE s1
         IN emit(s2, "timeupdate", << s2.app.currentTime >>)

\* restartTimeline leaving the timeline paused at 0.
restartTimeline_NoPlay(S) ==
    IF S.anim # Null THEN CallPause(CallRestart(S)) ELSE S

restartTimeline(S) ==
    IF S.anim # Null THEN play(CallPause(CallRestart(S))) ELSE S

handleVideoEnd(S) == emit(restartTimeline(S), "ended", << >>)

\* The durationchange listener installing a timeline before buildEffect's
\* error surfaces.
onDurationChange_InstallFirst(S) ==
    IF S.video.duration = "Infinity" THEN S
    ELSE LET s1 == [S EXCEPT !.video = VideoSetTime(@, 0)]
             s2 == [s1 EXCEPT !.anim = Some(NewTimeline(SecToMs(MediaTicks))),
                              !.orphaned = @ \o s1.anim,
                              !.video.loop = FALSE]
         IN IF NoMouseEvents(session)
            THEN [s2 EXCEPT !.threw = TRUE]
            ELSE play(s2)

\* The durationchange listener of the constructor: buildEffect throws on a
\* session without pointer samples, and the rest of the listener is skipped.
\* The assignment replaces the reference only: a timeline built earlier is
\* not paused and stays with anime's engine.
onDurationChange(S) ==
    IF S.video.duration = "Infinity" THEN S
    ELSE LET s1 == [S EXCEPT !.video = VideoSetTime(@, 0)]
         IN IF NoMouseEvents(session)
            THEN [s1 EXCEPT !.threw = TRUE]
            ELSE LET s2 == [s1 EXCEPT !.anim = Some(NewTimeline(SecToMs(MediaTicks))),
                                      !.orphaned = @ \o s1.anim,
                                      !.video.loop = FALSE]
                 IN play(s2)

\* onResize: the renderer takes the canvas' size.
onResize(S, size) == [S EXCEPT !.renderer.size = size]

\* The listeners the constructor attaches (attachEventListeners, and lines
\* 48 and 59): each is a function object of its own.
ConstructorListeners ==
    { [target |-> "video", type |-> "timeupdate", fn |-> "onTimeUpdate.bind(this)"],
      [target |-> "window", type |-> "resize", fn |-> "onResize.bind(this)"],
      [target |-> "video", type |-> "durationchange", fn |-> "closure"],
      [target |-> "video", type |-> "ended", fn |-> "handleVideoEnd.bind(this)"] }

\* removeEventListener: the listener with that very function is detached.
RemoveListener(ls, target, type, fn) ==
    ls \ { [target |-> target, type |-> type, fn |-> fn] }

\* An event of the type on the target reaches a handler.
Heard(S, target, type) == \E l \in S.listeners : l.target = target /\ l.type = type

\* cleanup() refusing to dispose a renderer twice.
cleanup_DisposeOnce(S) ==
    IF S.renderer.disposed THEN [S EXCEPT !.threw = TRUE]
    ELSE LET s1 == [S EXCEPT !.video = [VideoPause(@) EXCEPT !.hasSrc = FALSE],
                             !.renderer.disposed = TRUE]
             s2 == IF s1.app.animationFrameId # Null
                   THEN [s1 EXCEPT !.raf = @ \ {s1.app.animationFrameId[1]}]
                   ELSE s1
         IN [s2 EXCEPT !.listeners = RemoveListener(@, "window", "resize", "onResize")]

\* cleanup(): isPlaying and animationFrameId keep their values, and the
\* function handed to removeEventListener is this.onResize itself.
cleanup(S) ==
    LET s1 == [S EXCEPT !.video = [VideoPause(@) EXCEPT !.hasSrc = FALSE],
                        !.renderer.disposed = TRUE]
        s2 == IF s1.app.animationFrameId # Null
              THEN [s1 EXCEPT !.raf = @ \ {s1.app.animationFrameId[1]}]
              ELSE s1
    IN [s2 EXCEPT !.listeners = RemoveListener(@, "window", "resize", "onResize")]

\* The handler's effects become the state; lastCall records the call.
Returns(S, op, args) ==
    /\ video' = S.video
    /\ anim' = S.anim
    /\ orphaned' = S.orphaned
    /\ app' = S.app
    /\ rafPending' = S.raf
    /\ renderer' = S.renderer
    /\ listeners' = S.listeners
    /\ torn' = IF op = "cleanup" THEN torn + 1 ELSE torn
    /\ lastCall' = [op |-> op, args |-> args, emitted |-> S.emitted,
                    animCalls |-> S.animCalls, rendered |-> S.rendered,
                    threw |-> S.threw]
    /\ UNCHANGED << buildVars, pageVars >>

\* The state the constructor leaves (with the element the editor created:
\* muted, looping, not playing): nothing plays, no timeline yet, and the
\* seek to Number.MAX_SAFE_INTEGER is under way.
InitApp ==
    /\ video = [currentTime |-> MediaTicks, duration |-> "NaN", paused |-> TRUE,
                loop |-> TRUE, seeking |-> TRUE, endedQueued |-> FALSE, hasSrc |-> TRUE]
    /\ anim = Null
    /\ orphaned = << >>
    /\ app = [isPlaying |-> FALSE, currentTime |-> 0, animationFrameId |-> Null]
    /\ rafPending = {}
    /\ renderer = [disposed |-> FALSE, size |-> 640]
    /\ listeners = ConstructorListeners
    /\ torn = 0
    /\ lastCall = [op |-> "constructor", args |-> << >>, emitted |-> << >>,
                   animCalls |-> << >>, rendered |-> FALSE, threw |-> FALSE]

\* A call of play() may add a render loop: the model stops at MaxPending.
RoomForLoop == Cardinality(rafPending) < MaxPending

\* The end-of-playback tasks (the last timeupdate, then ended) run back to
\* back: nothing else is dispatched between them.
NoEndedQueued == ~video.endedQueued

\* The editor calls the App while it holds it: it drops its reference right
\* after cleanup().
Held == torn = 0

(* Calls of the public methods by the UI. *)
PublicPlay ==
    /\ Held
    /\ NoEndedQueued
    /\ RoomForLoop
    /\ Returns(play(Entering), "play", << >>)

PublicPause ==
    /\ Held
    /\ NoEndedQueued
    /\ Returns(pause(Entering), "pause", << >>)

PublicSeek ==
    /\ Held
    /\ NoEndedQueued
    /\ \E t \in SeekTimes : Returns(seek(Entering, t), "seek", << t >>)

\* cleanup(), by the editor's effect teardown or by anyone again.
PublicCleanup ==
    /\ torn < MaxCleanups
    /\ NoEndedQueued
    /\ Returns(cleanup(Entering), "cleanup", << >>)

(* Events of the media element and of the window.  An event runs the App's *)
(* handler if a listener for it is attached; lastCall is "unheard" if not. *)
\* The element reports its duration: Infinity first (a recorded stream), or
\* the real one.
DurationChange ==
    /\ NoEndedQueued
    /\ RoomForLoop
    /\ \E d \in {"Infinity", "finite"} :
          /\ video.duration # "finite"
          /\ video.duration # d
          /\ LET S == [Entering EXCEPT !.video.duration = d]
             IN IF Heard(S, "video", "durationchange")
                THEN Returns(onDurationChange(S), "durationchange", << >>)
                ELSE Returns(S, "unheard", << "durationchange" >>)

\* The element reports a finite duration once more: a refined estimate of
\* the same length in ticks.
DurationRefined ==
    /\ NoEndedQueued
    /\ RoomForLoop
    /\ video.duration = "finite"
    /\ Len(orphaned) < MaxRebuilds
    /\ IF Heard(Entering, "video", "durationchange")
       THEN Returns(onDurationChange(Entering), "durationchange", << >>)
       ELSE Returns(Entering, "unheard", << "durationchange" >>)

\* The timeupdate that follows a seek.
SeekTimeUpdate ==
    /\ NoEndedQueued
    /\ video.seeking
    /\ LET S == [Entering EXCEPT !.video.seeking = FALSE]
       IN IF Heard(S, "video", "timeupdate")
          THEN Returns(onTimeUpdate(S), "timeupdate", << >>)
          ELSE Returns(S, "unheard", << "timeupdate" >>)

\* Playback advances by one tick and reports it (timeupdate); at the end a
\* looping element starts over, any other pauses and queues ended.  An
\* element that does not know its duration yet learns it at the end.
VideoTick ==
    /\ NoEndedQueued
    /\ ~video.paused
    /\ video.currentTime < MediaTicks
    /\ LET t == video.currentTime + 1
           atEnd == t = MediaTicks /\ video.duration = "finite"
           v == IF atEnd /\ video.loop
                THEN [video EXCEPT !.currentTime = 0]
                ELSE IF atEnd
                     THEN [video EXCEPT !.currentTime = t, !.paused = TRUE,
                                        !.endedQueued = TRUE]
                     ELSE [video EXCEPT !.currentTime = t]
           S == [Entering EXCEPT !.video = v]
       IN IF Heard(S, "video", "timeupdate")
          THEN Returns(onTimeUpdate(S), "timeupdate", << >>)
          ELSE Returns(S, "unheard", << "timeupdate" >>)

\* The ended event.
VideoEnded ==
    /\ video.endedQueued
    /\ RoomForLoop
    /\ LET S == [Entering EXCEPT !.video.endedQueued = FALSE]
       IN IF Heard(S, "video", "ended")
          THEN Returns(handleVideoEnd(S), "ended", << >>)
          ELSE Returns(S, "unheard", << "ended" >>)

\* The window (and with it the canvas) takes another size.
Resize ==
    /\ \E size \in CanvasSizes \ {renderer.size} :
          IF Heard(Entering, "window", "resize")
          THEN Returns(onResize(Entering, size), "resize", << size >>)
          ELSE Returns(Entering, "unheard", << "resize" >>)

(* The frame clock. *)
\* A pending requestAnimationFrame callback runs.
Frame ==
    /\ \E id \in rafPending :
          Returns(animate([Entering EXCEPT !.raf = @ \ {id}]), "frame", << id >>)

\* One frame of anime's engine on an instance: a running one advances, and
\* completes at its end.
Advance(a) ==
    IF a.paused THEN a
    ELSE LET t == IF a.currentTime + EngineStep > a.duration
                  THEN a.duration ELSE a.currentTime + EngineStep
         IN IF t >= a.duration
            THEN [a EXCEPT !.currentTime = t, !.paused = TRUE, !.completed = TRUE]
            ELSE [a EXCEPT !.currentTime = t]

\* anime's engine steps every running instance in the same frame.
EngineTick ==
    /\ \/ anim # Null /\ ~anim[1].paused
       \/ \E i \in 1..Len(orphaned) : ~orphaned[i].paused
    /\ anim' = [i \in 1..Len(anim) |-> Advance(anim[i])]
    /\ orphaned' = [i \in 1..Len(orphaned) |-> Advance(orphaned[i])]
    /\ lastCall' = [op |-> "engine", args |-> << >>, emitted |-> << >>,
                    animCalls |-> << >>, rendered |-> FALSE, threw |-> FALSE]
    /\ UNCHANGED << video, app, rafPending, renderer, listeners, torn, buildVars, pageVars >>

NextApp ==
    \/ PublicPlay
    \/ PublicPause
    \/ PublicSeek
    \/ PublicCleanup
    \/ Resize
    \/ DurationChange
    \/ SeekTimeUpdate
    \/ VideoTick
    \/ VideoEnded
    \/ Frame
    \/ EngineTick

(***************************************************************************)
(* The record tab: useScreenRecording and useScriptInjection               *)
(* (src/tabs/record.tsx)                                                   *)
(*                                                                         *)
(* A MediaRecorder is modelled with its state, the one video track of its  *)
(* stream, and the events it has queued and not yet fired; handlers run    *)
(* to completion, one per step, and events of different sources are fired *)
(* in any order.  React state set by a handler is what the next handler    *)
(* sees.                                                                   *)
(***************************************************************************)
\* Tabs of the browser window.
MaxTabs == 2

\* Tab events and queries one page handles.
MaxTabEvents == 3

Tabs == 1..MaxTabs

\* Recordings one page starts.
MaxRecordings == 2

\* Timeslice chunks one recorder delivers while it records.
MaxSlices == 1

\* Pointer messages the page stores.
MaxPointer == 1

\* Sizes of the Blob of a dataavailable event (0: an empty chunk).
ChunkSizes == {0, 1}

\* What MediaRecorder.stop() does on an inactive recorder: nothing (the
\* current MediaStream Recording specification) or throw InvalidStateError
\* (its earlier versions).
StopWhenInactive == {"noop", "throws"}

Entered ==
    [hook |-> hook, recorders |-> recorders, storage |-> storage,
     editorTabs |-> editorTabs, now |-> now, threw |-> FALSE]

DataEvent(size) == [type |-> "dataavailable", size |-> size]
StopEvent == [type |-> "stop", size |-> 0]

\* handleRecordingStopped (lines 78-106), called from a handler of recorder r.
handleRecordingStopped(P, r) ==
    IF P.hook.isRecordingStopped THEN P
    ELSE LET p1 == [P EXCEPT !.hook.isRecordingStopped = TRUE,
                             !.hook.sessionEndTime = Some(P.now),
                             !.now = @ + 1]
         IN IF Len(p1.hook.recordedChunks) > 0
            THEN [p1 EXCEPT
                    !.storage = Append(@, [kind |-> "session", by |-> r,
                                           startTime |-> p1.hook.sessionStartTime,
                                           endTime |-> p1.hook.sessionEndTime,
                                           chunks |-> p1.hook.recordedChunks,
                                           mouseEvents |-> p1.hook.mouseEvents]),
                    !.editorTabs = Append(@, r)]
            ELSE p1

\* MediaRecorder.stop() on recorder r: an active recorder becomes inactive
\* and queues its last dataavailable and its stop event.
RecorderStop(P, r, size, whenInactive) ==
    IF P.recorders[r].state = "recording"
    THEN [P EXCEPT !.recorders[r].state = "inactive",
                   !.recorders[r].queue = @ \o << DataEvent(size), StopEvent >>]
    ELSE IF whenInactive = "throws" THEN [P EXCEPT !.threw = TRUE] ELSE P

\* MediaRecorder.requestData(): InvalidStateError on an inactive recorder.
RecorderRequestData(P, r, size) ==
    IF P.recorders[r].state = "recording"
    THEN [P EXCEPT !.recorders[r].queue = Append(@, DataEvent(size))]
    ELSE [P EXCEPT !.threw = TRUE]

\* setStream(null); setMediaStream(null)
ClearStreams(P) == [P EXCEPT !.hook.stream = Null, !.hook.mediaStream = Null]

\* track.onended of recorder r's stream (lines 150-155).
onended(P, r, size, whenInactive) ==
    LET p1 == RecorderStop(P, r, size, whenInactive)
    IN IF p1.threw THEN p1 ELSE handleRecordingStopped(ClearStreams(p1), r)

\* mediaRecorder.onstop of recorder r (lines 158-162).
onstop(P, r) == handleRecordingStopped(ClearStreams(P), r)

\* mediaRecorder.ondataavailable of recorder r (lines 164-168).
ondataavailable(P, r, size) ==
    IF size > 0
    THEN [P EXCEPT !.hook.recordedChunks = Append(@, [from |-> r, size |-> size]),
                   !.recorders[r].delivered = @ + 1]
    ELSE P

\* stopRecording (lines 177-187) as the Stop button calls it.
stopRecording(P, size1, size2) ==
    IF P.hook.stream = Null THEN P
    ELSE LET r == P.hook.stream[1]
             p1 == RecorderRequestData(P, r, size1)
             p2 == IF p1.threw THEN p1 ELSE RecorderStop(p1, r, size2, "noop")
             p3 == IF p2.threw THEN p2 ELSE [p2 EXCEPT !.hook.stream = Null]
         IN IF p3.threw \/ p3.hook.mediaStream = Null THEN p3
            ELSE [p3 EXCEPT !.recorders[p3.hook.mediaStream[1]].trackLive = FALSE,
                            !.hook.mediaStream = Null]

Left(P) ==
    /\ hook' = P.hook
    /\ recorders' = P.recorders
    /\ storage' = P.storage
    /\ editorTabs' = P.editorTabs
    /\ now' = P.now
    /\ UNCHANGED << buildVars, appVars, inj >>

InitPage ==
    /\ hook = [stream |-> Null, mediaStream |-> Null, isRecordingStopped |-> FALSE,
               recordedChunks |-> << >>, sessionStartTime |-> Null,
               sessionEndTime |-> Null, mouseEvents |-> 0]
    /\ awaiting = 0
    /\ recorders = << >>
    /\ storage = << >>
    /\ editorTabs = << >>
    /\ now = 0
    /\ inj = [injectedTabs |-> {}, getting |-> << >>, executing |-> << >>,
              issued |-> [t \in 1..MaxTabs |-> 0], queried |-> FALSE, events |-> 0]

\* The startRecording calls made so far: each begins with the write of
\* line 119.
Started == Len(SelectSeq(storage, LAMBDA w : w.kind = "start"))

\* The button shows Start and is clicked: startRecording up to its first
\* await (lines 108-129).
ClickStart ==
    /\ hook.stream = Null
    /\ Started < MaxRecordings
    /\ awaiting' = awaiting + 1
    /\ Left([Entered EXCEPT
               !.hook.isRecordingStopped = FALSE,
               !.hook.recordedChunks = << >>,
               !.hook.sessionStartTime = Some(now),
               !.storage = Append(@, [kind |-> "start", by |-> 0,
                                      startTime |-> Some(now), endTime |-> Null,
                                      chunks |-> << >>, mouseEvents |-> 0]),
               !.now = @ + 1])

\* The picker and getUserMedia resolve: lines 141-171.
MediaGranted ==
    /\ awaiting > 0
    /\ awaiting' = awaiting - 1
    /\ LET r == Len(recorders) + 1 IN
       Left([Entered EXCEPT
               !.recorders = Append(@, [state |-> "recording", trackLive |-> TRUE,
                                        queue |-> << >>, endedQueued |-> FALSE,
                                        slices |-> 0, delivered |-> 0]),
               !.hook.mediaStream = Some(r),
               !.hook.stream = Some(r)])

\* The picker is cancelled or getUserMedia rejects: the catch of line 172.
MediaDenied ==
    /\ awaiting > 0
    /\ awaiting' = awaiting - 1
    /\ Left(Entered)

\* The button shows Stop and is clicked.
ClickStop ==
    /\ hook.stream # Null
    /\ \E size1, size2 \in ChunkSizes : Left(stopRecording(Entered, size1, size2))
    /\ UNCHANGED awaiting

\* A message of the pointer observer is stored (lines 36-57).
PointerMessage ==
    /\ hook.mouseEvents < MaxPointer
    /\ Left([Entered EXCEPT !.hook.mouseEvents = @ + 1])
    /\ UNCHANGED awaiting

\* start(1000): a recording recorder queues the chunk of a timeslice.
Timeslice ==
    /\ \E r \in 1..Len(recorders), size \in ChunkSizes :
          /\ recorders[r].state = "recording"
          /\ recorders[r].slices < MaxSlices
          /\ Left([Entered EXCEPT !.recorders[r].slices = @ + 1,
                                  !.recorders[r].queue = Append(@, DataEvent(size))])
    /\ UNCHANGED awaiting

\* The user ends the screen share: the track ends and its ended event is
\* queued.
TrackEnds ==
    /\ \E r \in 1..Len(recorders) :
          /\ recorders[r].trackLive
          /\ Left([Entered EXCEPT !.recorders[r].trackLive = FALSE,
                                  !.recorders[r].endedQueued = TRUE])
    /\ UNCHANGED awaiting

\* A recorder whose tracks have all ended stops by itself.
RecorderAutoStops ==
    /\ \E r \in 1..Len(recorders), size \in ChunkSizes :
          /\ recorders[r].state = "recording"
          /\ ~recorders[r].trackLive
          /\ Left(RecorderStop(Entered, r, size, "noop"))
    /\ UNCHANGED awaiting

\* The ended event of a track is fired.
FireEnded ==
    /\ \E r \in 1..Len(recorders), size \in ChunkSizes, w \in StopWhenInactive :
          /\ recorders[r].endedQueued
          /\ Left(onended([Entered EXCEPT !.recorders[r].endedQueued = FALSE],
                          r, size, w))
    /\ UNCHANGED awaiting

\* The next queued event of a recorder is fired.
FireRecorderEvent ==
    /\ \E r \in 1..Len(recorders) :
          /\ recorders[r].queue # << >>
          /\ LET e == Head(recorders[r].queue)
                 p1 == [Entered EXCEPT !.recorders[r].queue = Tail(@)]
             IN Left(IF e.type = "stop" THEN onstop(p1, r)
                     ELSE ondataavailable(p1, r, e.size))
    /\ UNCHANGED awaiting

NextRecorder ==
    \/ ClickStart
    \/ MediaGranted
    \/ MediaDenied
    \/ ClickStop
    \/ PointerMessage
    \/ Timeslice
    \/ TrackEnds
    \/ RecorderAutoStops
    \/ FireEnded
    \/ FireRecorderEvent

\* injectScript up to its chrome.tabs.get call (lines 195-201): the test of
\* injectedTabs, then the request whose callback goes on.
injectScript(I, tabId) ==
    IF tabId \in I.injectedTabs THEN I
    ELSE [I EXCEPT !.getting = Append(@, tabId)]

Injecting(I) ==
    /\ inj' = [I EXCEPT !.events = @ + 1]
    /\ UNCHANGED << buildVars, appVars, hook, awaiting, recorders, storage,
                    editorTabs, now >>

RoomForTabEvent == inj.events < MaxTabEvents

\* chrome.tabs.onActivated (lines 268-273).
TabActivated ==
    /\ RoomForTabEvent
    /\ \E t \in Tabs : Injecting(injectScript(inj, t))

\* chrome.tabs.onCreated (lines 283-288).
TabCreated ==
    /\ RoomForTabEvent
    /\ \E t \in Tabs : Injecting(injectScript(inj, t))

\* chrome.tabs.onUpdated (lines 298-306).
TabUpdated ==
    /\ RoomForTabEvent
    /\ \E t \in Tabs, status \in {"loading", "complete"}, active \in BOOLEAN :
          Injecting(IF status = "complete" /\ active THEN injectScript(inj, t) ELSE inj)

\* The callback of the query for the active tab made on mount (lines
\* 315-322): tabs[0]?.id is a tab's id or undefined.
ActiveTabQueried ==
    /\ ~inj.queried
    /\ RoomForTabEvent
    /\ \E t \in Tabs \cup {0} :
          Injecting(IF t # 0 THEN injectScript([inj EXCEPT !.queried = TRUE], t)
                    ELSE [inj EXCEPT !.queried = TRUE])

\* The callback of chrome.tabs.get (lines 201-210): with lastError set it
\* returns, otherwise it issues executeScript.
TabGot ==
    /\ inj.getting # << >>
    /\ \E lastError \in BOOLEAN :
          LET t == Head(inj.getting)
              i1 == [inj EXCEPT !.getting = Tail(@)]
          IN inj' = IF lastError THEN i1
                    ELSE [i1 EXCEPT !.issued[t] = @ + 1, !.executing = Append(@, t)]
    /\ UNCHANGED << buildVars, appVars, hook, awaiting, recorders, storage,
                    editorTabs, now >>

\* The result callback of executeScript (lines 255-262).
ScriptExecuted ==
    /\ inj.executing # << >>
    /\ \E lastError \in BOOLEAN :
          LET t == Head(inj.executing)
              i1 == [inj EXCEPT !.executing = Tail(@)]
          IN inj' = IF lastError THEN i1
                    ELSE [i1 EXCEPT !.injectedTabs = @ \cup {t}]
    /\ UNCHANGED << buildVars, appVars, hook, awaiting, recorders, storage,
                    editorTabs, now >>

NextInject ==
    \/ TabActivated
    \/ TabCreated
    \/ TabUpdated
    \/ ActiveTabQueried
    \/ TabGot
    \/ ScriptExecuted

\* buildEffect on every enumerated session (no App around it).
Init == InitBuild /\ InitApp /\ InitPage

Spec == Init /\ [][NextBuild]_vars

\* buildEffect called twice on sessions with odd samples and degenerate
\* durations.
InitEdgeBuild ==
    /\ \E tr \in EdgeTraces, cfg \in EdgeConfigs :
          /\ session = [mouseEvents |-> tr, startTime |-> cfg[1], endTime |-> cfg[2]]
          /\ totalDuration = cfg[3]
    /\ bpc = "entry"
    /\ endTime = 0
    /\ validEvents = << >>
    /\ evIdx = 0
    /\ currentZoom = Null
    /\ currentTrack = Null
    /\ effects = << >>
    /\ fxIdx = 0
    /\ currentTime = 0
    /\ timeline = << >>
    /\ round = 1
    /\ firstResult = Null

InitEdge == InitEdgeBuild /\ InitApp /\ InitPage

NextEdge == NextBuild \/ Rebuild

SpecEdge == InitEdge /\ [][NextEdge]_vars

\* App on the media element, from its construction on.
\* The sessions the editor may hand to App: one with a gesture, one without
\* pointer samples.
AppTraces == { ScenarioTrace, << >> }

BuildIdle ==
    /\ \E tr \in AppTraces :
          session = [mouseEvents |-> tr, startTime |-> 0, endTime |-> 2500]
    /\ totalDuration = SecToMs(MediaTicks)
    /\ bpc = "entry"
    /\ endTime = 0
    /\ validEvents = << >>
    /\ evIdx = 0
    /\ currentZoom = Null
    /\ currentTrack = Null
    /\ effects = << >>
    /\ fxIdx = 0
    /\ currentTime = 0
    /\ timeline = << >>
    /\ round = 1
    /\ firstResult = Null

AppInit == BuildIdle /\ InitApp /\ InitPage

SpecApp == AppInit /\ [][NextApp]_vars

\* App on an element that refines its duration while the UI plays and
\* pauses.
NextRebuild ==
    \/ PublicPlay
    \/ PublicPause
    \/ DurationChange
    \/ DurationRefined
    \/ SeekTimeUpdate
    \/ VideoTick
    \/ VideoEnded
    \/ Frame
    \/ EngineTick

SpecRebuild == AppInit /\ [][NextRebuild]_vars

(***************************************************************************)
(* Views used by the properties of buildEffect                             *)
(***************************************************************************)
\* The segments the timeline's children make up: a filler child is a filler
\* segment, a zoomIn child with the zoomOut child that follows it is one
\* effect segment from the zoom's start to the end of its zoom-out.
RECURSIVE SegmentsOf(_)
SegmentsOf(ch) ==
    IF ch = << >> THEN << >>
    ELSE IF ch[1].kind = "filler"
         THEN << [kind |-> "filler", start |-> ch[1].offset, duration |-> ch[1].duration] >>
              \o SegmentsOf(Tail(ch))
         ELSE << [kind |-> "effect", start |-> ch[1].offset,
                  duration |-> ch[2].offset + ch[2].duration - ch[1].offset] >>
              \o SegmentsOf(SubSeq(ch, 3, Len(ch)))

Segments == SegmentsOf(timeline)

SegEnd(g) == g.start + g.duration

\* segs are sorted, contiguous, non-overlapping and cover [0, total).
Tiles(segs, total) ==
    /\ Len(segs) >= 1
    /\ segs[1].start = 0
    /\ \A i \in 1..Len(segs) : segs[i].duration > 0
    /\ \A i \in 1..(Len(segs) - 1) : SegEnd(segs[i]) = segs[i + 1].start
    /\ SegEnd(segs[Len(segs)]) = total

Built == bpc = "done"

\* C1 (as claimed): once buildEffect has returned, the segments on the
\* timeline tile [0, totalDuration): sorted, no overlap, no gap.
C1_Tiling == Built => Tiles(Segments, totalDuration)

IsScenario ==
    /\ session.mouseEvents = ScenarioTrace
    /\ session.startTime = 0
    /\ totalDuration = 3000

\* C2 (as claimed): the end-to-end scenario yields one Zoom [0,1200] and one
\* Track [0,1200] with 3 points, and the timeline is exactly
\* [EffectSegment(0,1200), FillerSegment(1200,1800)].
C2_EndToEnd ==
    (IsScenario /\ Built) =>
        /\ Len(effects) = 2
        /\ \E i, j \in 1..2 :
              /\ effects[i].type = "zoom" /\ effects[i].start = 0 /\ effects[i].end = 1200
              /\ effects[j].type = "track" /\ effects[j].start = 0 /\ effects[j].end = 1200
              /\ Len(effects[j].data.points) = 3
        /\ Segments = << [kind |-> "effect", start |-> 0, duration |-> 1200],
                         [kind |-> "filler", start |-> 1200, duration |-> 1800] >>

\* effects[k-1] and effects[k] are a Zoom and a Track of one gesture with the
\* identical interval, and the compile loop has just consumed both.
PairJustCompiled ==
    /\ bpc = "compile"
    /\ fxIdx >= 2
    /\ effects[fxIdx - 1].type = "zoom"
    /\ effects[fxIdx].type = "track"
    /\ effects[fxIdx - 1].start = effects[fxIdx].start
    /\ effects[fxIdx - 1].end = effects[fxIdx].end

\* C3 (as claimed): a same-interval Zoom and Track [s, e] consume the
\* interval once: after both entries the cursor is e.
C3_SingleAdvance == PairJustCompiled => currentTime = effects[fxIdx].end

\* The trace in the order buildEffect walks it, and its button samples.
Chronological == SortByTime(session.mouseEvents)
Buttons == SelectSeq(Chronological, LAMBDA e : e.type # "mouseMove")

\* Down and Up strictly alternate, and every Down is followed by its Up
\* less than 1000 ms later (Moves may lie anywhere).
ShortGesturesOnly ==
    /\ \A i \in 1..(Len(Buttons) - 1) : Buttons[i].type # Buttons[i + 1].type
    /\ \A i \in 1..Len(Buttons) :
          Buttons[i].type = "mouseDown" =>
             /\ i < Len(Buttons)
             /\ Buttons[i + 1].time - Buttons[i].time < 1000

\* C4: in a session of short gestures only (every Down followed by its Up
\* less than 1000 ms later), buildEffect never materializes an effect, and
\* the timeline it returns is a single filler over [0, totalDuration).
C4_MinDurationFilter ==
    ShortGesturesOnly =>
        /\ effects = << >>
        /\ Built => Segments = << [kind |-> "filler", start |-> 0,
                                   duration |-> totalDuration] >>

\* A short gesture with a Move inside it was walked and the timeline built.
C4_Witness ==
    /\ Built
    /\ ShortGesturesOnly
    /\ \E i, j, k \in 1..Len(validEvents) :
          /\ i < j /\ j < k
          /\ validEvents[i].type = "mouseDown"
          /\ validEvents[j].type = "mouseMove"
          /\ validEvents[k].type = "mouseUp"
          /\ validEvents[k].time > validEvents[i].time

\* C5 (as claimed): the list the timeline is compiled from holds no two
\* same-kind effects closer than the join threshold (so the gestures
\* [0,1200] and [2500,3800] leave a single Zoom [0,3800]).
C5_Merged ==
    bpc \in {"compile", "done"} =>
        \A i, j \in 1..Len(effects) :
            (i < j /\ effects[i].type = effects[j].type) =>
                effects[j].start - effects[i].end >= JoinThreshold

\* The effect segments among the children one compile step added.
AddedEffectSegments ==
    SelectSeq(SegmentsOf(SubSeq(timeline', Len(timeline) + 1, Len(timeline'))),
              LAMBDA g : g.kind = "effect")

\* C6 (as claimed): a Zoom the compile loop places never extends past
\* totalDuration and is never shorter than the minimum, and a Zoom the loop
\* had to clip (it would have run past totalDuration) ends exactly at
\* totalDuration.
C6_Clipping ==
    [][ (bpc = "compile" /\ fxIdx' = fxIdx + 1 /\ effects[fxIdx + 1].type = "zoom") =>
          LET e == effects[fxIdx + 1]
              cur == IF e.start > currentTime THEN e.start ELSE currentTime
              clipped == cur + (e.end - e.start) > totalDuration
              added == AddedEffectSegments
          IN \A n \in 1..Len(added) :
                /\ SegEnd(added[n]) <= totalDuration
                /\ added[n].duration >= ZoomMinDuration
                /\ clipped => SegEnd(added[n]) = totalDuration
      ]_vars

(***************************************************************************)
(* Properties of the playback synchronizer                                 *)
(***************************************************************************)
\* C7: on a media-clock tick (onTimeUpdate) with the timeline at position p
\* and the clock at c ms, the timeline ends at exactly c when |c - p| > 50
\* and is left at p when |c - p| <= 50.
C7_DriftCorrection ==
    [][ (lastCall'.op = "timeupdate" /\ anim # Null) =>
          LET clock == SecToMs(video'.currentTime)
              position == anim[1].currentTime
          IN /\ anim' # Null
             /\ IF Abs(clock - position) > 50
                THEN anim'[1].currentTime = clock
                ELSE anim'[1].currentTime = position
      ]_vars

\* A tick has just re-sought a drifted timeline to the clock.
C7_Witness ==
    /\ lastCall.op = "timeupdate"
    /\ lastCall.animCalls = << "seek" >>
    /\ video.currentTime > 0
    /\ anim[1].currentTime = SecToMs(video.currentTime)

\* C8 (as claimed): after seek(t) for a time t of the media, in whatever
\* state it was issued, the timeline was restarted and then sought, its
\* position is t*1000 ms, App.currentTime and the media clock are t, and one
\* seek(t) was emitted.
C8_SeekFromAnyState ==
    (lastCall.op = "seek" /\ lastCall.args[1] \in 0..MediaTicks) =>
        LET t == lastCall.args[1] IN
        /\ ~lastCall.threw
        /\ lastCall.animCalls = << "restart", "seek" >>
        /\ anim # Null
        /\ anim[1].currentTime = SecToMs(t)
        /\ app.currentTime = t
        /\ video.currentTime = t
        /\ lastCall.emitted = << [event |-> "seek", args |-> << t >>] >>

\* C9: after the handler of an ended event, the timeline was restarted and
\* is at 0 and running, one ended notification was emitted, and playback
\* runs again from 0 (the engine is playing, the media clock runs from 0).
C9_EndedRestarts ==
    lastCall.op = "ended" =>
        /\ ~lastCall.threw
        /\ anim # Null
        /\ lastCall.animCalls = << "restart", "pause", "play" >>
        /\ anim[1].currentTime = 0
        /\ ~anim[1].paused
        /\ Cardinality({ i \in 1..Len(lastCall.emitted) :
                           lastCall.emitted[i].event = "ended" }) = 1
        /\ app.isPlaying
        /\ ~video.paused
        /\ video.currentTime = 0

\* The media ran to its end and the ended handler has returned.
C9_Witness ==
    /\ lastCall.op = "ended"
    /\ anim # Null
    /\ Len(lastCall.emitted) > 0

\* C10 (as claimed): while the engine is not playing (before the first
\* play(), and from pause() to the next play()) no render callback is
\* pending.
C10_LoopOnlyWhilePlaying == ~app.isPlaying => rafPending = {}

(***************************************************************************)
(* Teardown                                                                *)
(***************************************************************************)
\* C11 (as claimed): once cleanup() has returned, the per-frame callback
\* never renders again.
C11_TeardownStopsLoop == torn > 0 => ~(lastCall.op = "frame" /\ lastCall.rendered)

\* C12 (as claimed): once cleanup() has returned, no timeupdate, ended,
\* durationchange or resize event runs a handler of the App.
C12_SubscriptionsReleased ==
    torn > 0 => lastCall.op \notin {"timeupdate", "ended", "durationchange", "resize"}

\* C13: in every state, cleanup() called twice in a row raises no error and
\* leaves the App, the media element, the renderer, the pending callbacks
\* and the listeners as cleanup() called once leaves them.
C13_CleanupIdempotent ==
    LET once == cleanup(Entering)
        twice == cleanup(once)
    IN /\ ~once.threw
       /\ ~twice.threw
       /\ twice = once

\* cleanup() has returned twice on an App that was playing its timeline.
C13_Witness ==
    /\ torn = 2
    /\ lastCall.op = "cleanup"
    /\ app.isPlaying
    /\ anim # Null
    /\ renderer.disposed

(***************************************************************************)
(* Properties of buildEffect on repeated, odd and degenerate input         *)
(***************************************************************************)
\* What a call of buildEffect that has ended has produced.
Outcome == [threw |-> bpc = "threw", effects |-> effects, timeline |-> timeline]

TimelineCreated == bpc \notin {"entry", "threw"}

\* C15: on a session whose pointer-event list is empty or missing,
\* buildEffect never gets past its entry other than by throwing: no
\* timeline is created and nothing is added to one.
C15_EmptyTraceError ==
    Len(session.mouseEvents) = 0 => (~TimelineCreated /\ timeline = << >>)

\* buildEffect has thrown on a session without pointer events.
C15_Witness == bpc = "threw" /\ Len(session.mouseEvents) = 0 /\ timeline = << >>

\* A sample's timestamp is not a finite non-negative number.
OddTimestamp(e) == e.timeIs # "finite" \/ e.time < 0

\* C16 (as claimed): with a sample whose timestamp is NaN, not a number,
\* Infinity or negative in the session, buildEffect does not get past its
\* entry other than by throwing.
C16_InvalidTimestampError ==
    (\E i \in 1..Len(session.mouseEvents) : OddTimestamp(session.mouseEvents[i])) =>
        bpc \in {"entry", "threw"}

\* C17 (as claimed): with endTime <= startTime or totalDuration <= 0,
\* buildEffect does not get past its entry other than by throwing, and
\* never returns a timeline.
C17_DegenerateDurationError ==
    (session.endTime <= session.startTime \/ totalDuration <= 0) =>
        bpc \in {"entry", "threw"}

\* C18: a durationchange listener whose buildEffect call threw leaves
\* App.timeline as it was, adds nothing to any timeline, calls no timeline
\* method, and starts nothing: App's fields, the pending render callbacks
\* and the element's paused and loop flags are as before, and nothing is
\* emitted or rendered.
C18_AllOrNothing ==
    [][ (lastCall'.op = "durationchange" /\ lastCall'.threw) =>
          /\ anim' = anim
          /\ timeline' = timeline
          /\ app' = app
          /\ rafPending' = rafPending
          /\ video'.paused = video.paused
          /\ video'.loop = video.loop
          /\ lastCall'.animCalls = << >>
          /\ lastCall'.emitted = << >>
          /\ ~lastCall'.rendered
      ]_vars

\* The listener ran on a session without pointer events, and threw.
C18_Witness ==
    /\ lastCall.op = "durationchange"
    /\ lastCall.threw
    /\ Len(session.mouseEvents) = 0
    /\ video.duration = "finite"

\* The handler that ran last called this.timeline.seek.
Sought == \E i \in 1..Len(lastCall.animCalls) : lastCall.animCalls[i] = "seek"

Span ==
    IF session.endTime - session.startTime > totalDuration
    THEN totalDuration
    ELSE session.endTime - session.startTime

Offset(e) == e.time - session.startTime

InSpan(e) == e.timeIs = "finite" /\ 0 <= Offset(e) /\ Offset(e) <= Span

\* C20: the events the classifier walks are exactly the samples whose
\* offset lies in [0, span], in ascending time order, and every effect
\* (and every open accumulator) has 0 <= start <= end <= totalDuration.
C20_FilterAndOrder ==
    TimelineCreated =>
        /\ \A i \in 1..Len(validEvents) : InSpan(validEvents[i])
        /\ Len(validEvents) =
              Cardinality({ i \in 1..Len(session.mouseEvents) : InSpan(session.mouseEvents[i]) })
        /\ IsChronological(validEvents)
        /\ \A i \in 1..Len(effects) :
              /\ 0 <= effects[i].start
              /\ effects[i].start <= effects[i].end
              /\ effects[i].end <= totalDuration
        /\ currentZoom # Null =>
              /\ 0 <= currentZoom[1].start
              /\ currentZoom[1].start <= currentZoom[1].end
              /\ currentZoom[1].end <= totalDuration

\* A trace that arrived out of order, with a sample before the session's
\* start, was classified into at least one effect.
C20_Witness ==
    /\ Built
    /\ Len(effects) > 0
    /\ ~IsChronological(session.mouseEvents)
    /\ \E i \in 1..Len(session.mouseEvents) : Offset(session.mouseEvents[i]) < 0

(***************************************************************************)
(* Play head, timeline lifecycle and render loop                           *)
(***************************************************************************)
\* C26 (as claimed): while the synchronizer is not playing (from pause() to
\* the next play(), a seek in between included) the timeline does not run:
\* its position moves only by a seek.
C26_PauseFreezes == (anim # Null /\ ~app.isPlaying) => anim[1].paused

\* C27 (as claimed): a timeline exists only once the element has reported a
\* finite duration, and a timeline that a later duration change replaced
\* no longer runs.
C27_OneTimelineRuns ==
    /\ anim # Null => video.duration = "finite"
    /\ \A i \in 1..Len(orphaned) : orphaned[i].paused

\* C28 (as claimed): at most one render-frame callback is pending, and
\* animationFrameId names it.
C28_SingleRenderLoop ==
    /\ Cardinality(rafPending) <= 1
    /\ rafPending # {} => rafPending = { app.animationFrameId[i] : i \in 1..Len(app.animationFrameId) }

(***************************************************************************)
(* The classifier, the merge step and the shape of what is placed          *)
(***************************************************************************)
\* C21: every effect of the list, while the walk classifies and after the
\* merge, has start <= end and end - start >= 1000, and every Track effect
\* has at least 2 points.
C21_EffectInvariants ==
    \A i \in 1..Len(effects) :
        /\ effects[i].start <= effects[i].end
        /\ effects[i].end - effects[i].start >= 1000
        /\ effects[i].type = "track" => Len(effects[i].data.points) >= 2

\* The list was classified and merged: it holds a Zoom and a Track merged
\* from two, and the walk ended on an open Zoom too short to be kept.
C21_Witness ==
    /\ bpc = "compile"
    /\ \E i, j \in 1..Len(effects) :
          /\ effects[i].type = "zoom"
          /\ effects[j].type = "track"
          /\ effects[j].end > effects[j].data.end
    /\ currentZoom # Null

\* The finalization rule: what a candidate adds to the effect list.
Materialized(type, data) ==
    IF data.end - data.start >= 1000 /\ (type = "track" => Len(data.points) >= 2)
    THEN << [type |-> type, start |-> data.start, end |-> data.end, data |-> data] >>
    ELSE << >>

\* The walk is about to consume, and this step consumes, an event of the type.
Consumes(type) == WalkGuard(type) /\ evIdx' = evIdx + 1

\* C22: a Down at t with no open Zoom opens Zoom{t, t, (x,y)}; with an open
\* Zoom started less than 1000 ms before t it moves that Zoom's end to t and
\* keeps its start and target; otherwise it finalizes the open Zoom and
\* opens a new one at t.  The Track accumulator follows the same rule, an
\* extension appending the Down point.
C22_DownHandling ==
    [][ Consumes("mouseDown") =>
          LET t == NextTimeInMs
              pt == [x |-> NextEvent.x, y |-> NextEvent.y]
              newZoom == [start |-> t, end |-> t, target |-> pt]
              newTrack == [start |-> t, end |-> t, points |-> << pt >>]
              zoomSplit == currentZoom # Null /\ t - currentZoom[1].start >= 1000
              trackSplit == currentTrack # Null /\ t - currentTrack[1].start >= 1000
          IN /\ currentZoom' =
                  IF currentZoom = Null \/ zoomSplit
                  THEN Some(newZoom)
                  ELSE Some([start |-> currentZoom[1].start, end |-> t,
                             target |-> currentZoom[1].target])
             /\ currentTrack' =
                  IF currentTrack = Null \/ trackSplit
                  THEN Some(newTrack)
                  ELSE Some([start |-> currentTrack[1].start, end |-> t,
                             points |-> Append(currentTrack[1].points, pt)])
             /\ effects' = effects
                    \o (IF zoomSplit THEN Materialized("zoom", currentZoom[1]) ELSE << >>)
                    \o (IF trackSplit THEN Materialized("track", currentTrack[1]) ELSE << >>)
      ]_vars

\* A Down has just extended the open gesture: the accumulators keep their
\* start and end at the Down.
C22_Witness ==
    /\ bpc = "walk"
    /\ evIdx >= 2
    /\ validEvents[evIdx].type = "mouseDown"
    /\ currentZoom # Null
    /\ currentZoom[1].start < currentZoom[1].end
    /\ currentTrack # Null
    /\ Len(currentTrack[1].points) >= 2

\* C23: an Up at t closes the open Zoom and the open Track at t (the Track
\* with the Up point appended), finalizes each, and leaves no accumulator
\* open; with nothing open it changes nothing.
C23_UpHandling ==
    [][ Consumes("mouseUp") =>
          LET t == NextTimeInMs
              pt == [x |-> NextEvent.x, y |-> NextEvent.y]
          IN /\ currentZoom' = Null
             /\ currentTrack' = Null
             /\ effects' = effects
                    \o (IF currentZoom # Null
                        THEN Materialized("zoom", [currentZoom[1] EXCEPT !.end = t])
                        ELSE << >>)
                    \o (IF currentTrack # Null
                        THEN Materialized("track",
                                 [currentTrack[1] EXCEPT !.end = t, !.points = Append(@, pt)])
                        ELSE << >>)
      ]_vars

\* An Up has just closed a gesture into a Zoom and a Track.
C23_Witness ==
    /\ bpc = "walk"
    /\ evIdx >= 2
    /\ validEvents[evIdx].type = "mouseUp"
    /\ Len(effects) >= 2
    /\ effects[Len(effects)].type = "track"
    /\ effects[Len(effects)].end = validEvents[evIdx].time - session.startTime
    /\ currentZoom = Null
    /\ currentTrack = Null

\* C24: a Move at t appends (x,y) to the open Track and sets its end to t;
\* it leaves the open Zoom and the effect list alone, and changes nothing
\* when no Track is open.
C24_MoveHandling ==
    [][ Consumes("mouseMove") =>
          LET t == NextTimeInMs
              pt == [x |-> NextEvent.x, y |-> NextEvent.y]
          IN /\ currentZoom' = currentZoom
             /\ effects' = effects
             /\ currentTrack' =
                  IF currentTrack = Null THEN Null
                  ELSE Some([start |-> currentTrack[1].start, end |-> t,
                             points |-> Append(currentTrack[1].points, pt)])
      ]_vars

\* A Move has just advanced the open Track.
C24_Witness ==
    /\ bpc = "walk"
    /\ evIdx >= 2
    /\ validEvents[evIdx].type = "mouseMove"
    /\ currentTrack # Null
    /\ Len(currentTrack[1].points) >= 2
    /\ currentTrack[1].end = validEvents[evIdx].time - session.startTime
    /\ currentTrack[1].end > currentTrack[1].start

\* The merge of next into current as claimed: the merged effect and its
\* payload both end at next.end.
ClaimedMerge(current, next) ==
    [current EXCEPT
        !.end = next.end,
        !.data = IF current.type = "zoom"
                 THEN [current.data EXCEPT !.end = next.end, !.target = next.data.target]
                 ELSE [current.data EXCEPT !.end = next.end,
                                           !.points = @ \o next.data.points]]

RECURSIVE ClaimedJoinFrom(_, _)
ClaimedJoinFrom(effs, i) ==
    IF i > Len(effs) - 1
    THEN effs
    ELSE IF effs[i].type = effs[i + 1].type /\ effs[i + 1].start - effs[i].end < 2000
         THEN ClaimedJoinFrom(RemoveAt([effs EXCEPT ![i] = ClaimedMerge(effs[i], effs[i + 1])],
                                       i + 1), i)
         ELSE ClaimedJoinFrom(effs, i + 1)

\* C25 (as claimed): the merge step replaces list-adjacent same-kind
\* effects closer than the threshold, repeatedly, by one effect from
\* current.start to next.end with next's target or the concatenated points,
\* whose payload interval is its own interval; other effects are untouched.
C25_MergeResult ==
    [][ (bpc = "join" /\ bpc' = "compile") =>
          effects' = SortByStart(ClaimedJoinFrom(effects, 1)) ]_vars

\* The Zoom the compile step hands to addZoomAnimation: the effect's
\* payload, cut at totalDuration when the cursor would run past it.
ZoomPlaced(effect, cur) ==
    IF cur + (effect.end - effect.start) > totalDuration
    THEN [effect.data EXCEPT !.end = effect.data.start + (totalDuration - cur)]
    ELSE effect.data

\* The children the last compile step added.
AddedChildren == SubSeq(timeline', Len(timeline) + 1, Len(timeline'))

NotFiller(ch) == SelectSeq(ch, LAMBDA c : c.kind # "filler")

\* Between the two transitions of a Zoom no other child of the timeline
\* animates the FOV.
HoldUndisturbed(tl) ==
    \A i \in 1..(Len(tl) - 1) :
        tl[i].kind = "zoomIn" =>
            \A j \in 1..Len(tl) :
                j \notin {i, i + 1} =>
                    ~ /\ tl[j].offset < tl[i + 1].offset
                      /\ tl[j].offset + tl[j].duration > tl[i].offset + tl[i].duration

\* C29: a Zoom placed with interval [s, e], e - s >= 1000, adds a
\* transition from defaultFOV to defaultFOV - 20 over [s, s + 250] and one
\* back to defaultFOV over exactly [e - 250, e]; the two do not overlap and
\* the first ends on the FOV the second starts from, which nothing else on
\* the timeline changes in between.
C29_ZoomShape ==
    [][ /\ HoldUndisturbed(timeline')
        /\ (bpc = "compile" /\ fxIdx' = fxIdx + 1 /\ effects[fxIdx + 1].type = "zoom") =>
          LET e == effects[fxIdx + 1]
              cur == IF e.start > currentTime THEN e.start ELSE currentTime
              z == ZoomPlaced(e, cur)
              added == NotFiller(AddedChildren)
          IN IF cur < totalDuration /\ z.end - z.start >= 1000
             THEN /\ Len(added) = 2
                  /\ added[1].offset = z.start
                  /\ added[1].duration = 250
                  /\ added[1].from = DefaultFOV
                  /\ added[1].to = DefaultFOV - 20
                  /\ added[2].offset = z.end - 250
                  /\ added[2].duration = 250
                  /\ added[2].from = DefaultFOV - 20
                  /\ added[2].to = DefaultFOV
                  /\ added[1].offset + added[1].duration <= added[2].offset
             ELSE added = << >>
      ]_vars

\* A Zoom longer than the minimum has been placed: hold between the two
\* transitions.
C29_Witness ==
    /\ bpc = "compile"
    /\ fxIdx >= 1
    /\ effects[fxIdx].type = "zoom"
    /\ Len(timeline) >= 2
    /\ timeline[Len(timeline)].kind = "zoomOut"
    /\ timeline[Len(timeline) - 1].kind = "zoomIn"
    /\ timeline[Len(timeline)].offset >
          timeline[Len(timeline) - 1].offset + timeline[Len(timeline) - 1].duration

\* C30: the compile step of a Track adds no animation of its own (at most
\* the filler of the gap before it), and every child on the timeline is a
\* FOV animation: a filler or one of a Zoom's two transitions.
C30_TracksNotWired ==
    [][ (bpc = "compile" /\ fxIdx' = fxIdx + 1) =>
          /\ effects[fxIdx + 1].type = "track" => NotFiller(AddedChildren) = << >>
          /\ \A i \in 1..Len(timeline') :
                timeline'[i].kind \in {"filler", "zoomIn", "zoomOut"}
      ]_vars

\* The compile loop has consumed a Track with its points, and the timeline
\* holds children.
C30_Witness ==
    /\ bpc = "compile"
    /\ fxIdx >= 1
    /\ effects[fxIdx].type = "track"
    /\ Len(effects[fxIdx].data.points) >= 3
    /\ Len(timeline) >= 1

(***************************************************************************)
(* The session, the compile cursor and the shape of the timeline           *)
(***************************************************************************)
\* C31: no step of buildEffect changes the session: its mouseEvents (their
\* order, number and fields), its startTime and its endTime stay what the
\* caller handed in, through the clamp, the filter and sort, and the merge.
C31_SessionReadOnly == [][session' = session]_vars

\* A call has returned on a session whose events were not in time order and
\* whose end time was clamped, with an effect built from them.
C31_Witness ==
    /\ bpc = "done"
    /\ ~IsChronological(session.mouseEvents)
    /\ endTime < session.endTime
    /\ Len(validEvents) >= 2
    /\ Len(effects) >= 1

ZoomIntervals(tl) ==
    { [start |-> tl[i].offset, end |-> tl[i + 1].offset + tl[i + 1].duration] :
        i \in { k \in 1..(Len(tl) - 1) : tl[k].kind = "zoomIn" } }

Fillers(tl) == { tl[i] : i \in { k \in 1..Len(tl) : tl[k].kind = "filler" } }

\* C33: on the timeline as built so far, no filler overlaps the interval of
\* a Zoom animation, and no two Zoom animations overlap.
C33_NoOverlap ==
    /\ \A z \in ZoomIntervals(timeline), f \in Fillers(timeline) :
          f.offset + f.duration <= z.start \/ z.end <= f.offset
    /\ \A z1, z2 \in ZoomIntervals(timeline) :
          z1 # z2 => (z1.end <= z2.start \/ z2.end <= z1.start)

\* A timeline has been built with two Zoom animations and a filler in the
\* gap before the second.
C33_Witness ==
    /\ bpc = "done"
    /\ Cardinality(ZoomIntervals(timeline)) >= 2
    /\ \E i \in 2..(Len(timeline) - 1) :
          /\ timeline[i].kind = "filler"
          /\ timeline[i - 1].kind = "zoomOut"
          /\ timeline[i + 1].kind = "zoomIn"

\* The accumulators are both open with one start or both closed, and every
\* Zoom of the list is followed at once by a Track over the same interval.
Lockstep(cz, ct, effs) ==
    /\ (cz = Null) <=> (ct = Null)
    /\ cz # Null => cz[1].start = ct[1].start
    /\ \A i \in 1..Len(effs) :
          effs[i].type = "zoom" =>
              /\ i < Len(effs)
              /\ effs[i + 1].type = "track"
              /\ effs[i + 1].start = effs[i].start
              /\ effs[i + 1].end = effs[i].end

ZoomsIn(effs) == Len(SelectSeq(effs, LAMBDA e : e.type = "zoom"))

\* C34: after every step of the classifier walk, and after the open
\* accumulators are finalized at its end, the Zoom accumulator is open iff
\* the Track accumulator is, with the same start; only a step consuming an
\* Up adds a Zoom to the list; and every Zoom in the list is immediately
\* followed by a Track with the same start and end.
C34_Lockstep ==
    [][ (bpc \in {"entry", "walk"} /\ bpc' \in {"walk", "join"}) =>
          /\ Lockstep(currentZoom', currentTrack', effects')
          /\ ZoomsIn(effects') > ZoomsIn(effects) => Consumes("mouseUp")
      ]_vars

\* The walk has materialized a Zoom with its Track and a later Down has
\* opened both accumulators again.
C34_Witness ==
    /\ bpc = "walk"
    /\ evIdx >= 3
    /\ validEvents[evIdx].type = "mouseDown"
    /\ currentZoom # Null
    /\ currentTrack # Null
    /\ currentZoom[1].start = currentTrack[1].start
    /\ \E i \in 1..(Len(effects) - 1) :
          effects[i].type = "zoom" /\ effects[i + 1].type = "track"

(***************************************************************************)
(* The timeline's existence when App uses it                               *)
(***************************************************************************)
\* C35: whenever onTimeUpdate, play(), pause() or seek() has run, the
\* timeline it dereferenced existed: none of them ended in the TypeError of
\* a method called on an undefined this.timeline.
C35_TimelineBeforeUse ==
    lastCall.op \in {"timeupdate", "play", "pause", "seek"} => ~lastCall.threw

(***************************************************************************)
(* The record tab                                                          *)
(***************************************************************************)
\* The recorder stopping while the page handles each event that is queued.
SpecRecorder == AppInit /\ [][NextRecorder]_vars

SessionWritesBy(r) ==
    Len(SelectSeq(storage, LAMBDA w : w.kind = "session" /\ w.by = r))

EditorTabsBy(r) == Len(SelectSeq(editorTabs, LAMBDA t : t = r))

\* C36: for each recording started, its stop signals (the Stop button, the
\* track's ended event, the recorder's stop event) together write the
\* session record at most once and open the editor at most once.
C36_StopHandledOnce ==
    \A r \in 1..Len(recorders) : SessionWritesBy(r) <= 1 /\ EditorTabsBy(r) <= 1

\* The same page where every queued event is eventually fired and every
\* await of startRecording eventually settles.
SpecRecorderLive ==
    /\ AppInit
    /\ [][NextRecorder]_vars
    /\ WF_vars(FireEnded)
    /\ WF_vars(FireRecorderEvent)
    /\ WF_vars(RecorderAutoStops)
    /\ WF_vars(MediaGranted \/ MediaDenied)

\* Recorder r is inactive and every event it or its track queued has fired.
FullyStopped(r) ==
    /\ r <= Len(recorders)
    /\ recorders[r].state = "inactive"
    /\ recorders[r].queue = << >>
    /\ ~recorders[r].endedQueued

\* A session record with an end time and video from recorder r is in
\* storage and the editor was opened for it.
Persisted(r) ==
    /\ \E i \in 1..Len(storage) :
          /\ storage[i].kind = "session"
          /\ storage[i].by = r
          /\ storage[i].endTime # Null
          /\ \E k \in 1..Len(storage[i].chunks) : storage[i].chunks[k].from = r
    /\ EditorTabsBy(r) >= 1

\* C37: a recorder that has fully stopped having delivered a non-empty
\* chunk leads to its session record being persisted and the editor opened.
C37_RecorderLiveness ==
    \A r \in 1..MaxRecordings :
        (FullyStopped(r) /\ recorders[r].delivered > 0) ~> Persisted(r)

\* The tab events of a browser window reaching the page.
SpecInject == AppInit /\ [][NextInject]_vars

\* C38: executeScript is issued at most once for a given tab.
C38_InjectedOnce == \A t \in Tabs : inj.issued[t] <= 1

====
